---- MODULE Spec2Model ----
(***************************************************************************)
(* Model of the quiz generation service: the request handler submit_tool   *)
(* (app/api/router.py) and QuizBuilder (app/api/features/quizzify.py):     *)
(* schema lookup, index build, the generation-validation loop and the      *)
(* release of the vector store.                                            *)
(***************************************************************************)
EXTENDS Integers, Sequences, FiniteSets, TLC

(***************************************************************************)
(* Bounds of the model and constants of the program                        *)
(***************************************************************************)

\* largest requested count below the limit that the model enumerates
MaxN == 3

\* most create_questions calls made on one QuizBuilder
MaxCalls == 2

\* the requested count of the other request
PeerCount == 1

\* quizzify.py:119  if num_questions > 10
MaxQuestions == 10

\* quizzify.py:126  max_attempts = num_questions * 5
AttemptsFactor == 5

(***************************************************************************)
(* JSON values, abstracted to what pydantic's validators look at: the type *)
(* of the value and, for a string, the string itself; for a list of        *)
(* {key, value} objects, the keys in order.                                *)
(***************************************************************************)

StrV(s) == [t |-> "str", keys |-> <<s>>]
BoolV == [t |-> "bool", keys |-> <<>>]
ListKV(ks) == [t |-> "list_kv", keys |-> ks]
ListStr == [t |-> "list_str", keys |-> <<>>]
ListTM == [t |-> "list_tm", keys |-> <<>>]
DictV == [t |-> "dict", keys |-> <<>>]

(***************************************************************************)
(* The question schemas: required field -> declared type.                  *)
(***************************************************************************)

FillInTheBlankQuestion ==
    [question |-> "str", blanks |-> "list_kv", word_bank |-> "list_str",
     explanation |-> "str"]

OpenEndedQuestion ==
    [question |-> "str", answer |-> "str", feedback |-> "list_str"]

TrueFalseQuestion ==
    [question |-> "str", answer |-> "bool", explanation |-> "str"]

MultipleChoiceQuestion ==
    [question |-> "str", choices |-> "list_kv", answer |-> "str",
     explanation |-> "str"]

RelateConceptsQuestion ==
    [question |-> "str", pairs |-> "list_tm", answer |-> "list_tm",
     explanation |-> "str"]

MathExerciseQuestion ==
    [question |-> "str", solution |-> "str", correct_answer |-> "str",
     explanation |-> "str"]

\* the dict literal of get_parser_for_question_type
schema_mapping ==
    [fill_in_the_blank |-> FillInTheBlankQuestion,
     open_ended |-> OpenEndedQuestion,
     true_false |-> TrueFalseQuestion,
     multiple_choice |-> MultipleChoiceQuestion,
     relate_concepts |-> RelateConceptsQuestion,
     math_exercises |-> MathExerciseQuestion,
     default |-> MultipleChoiceQuestion]

\* Python's None, as a schema
NoSchema == [none |-> "none"]

\* schema_mapping.get(self.question_type)
SchemaGet(qt) ==
    IF qt \in DOMAIN schema_mapping THEN schema_mapping[qt] ELSE NoSchema

\* get_parser_for_question_type raises ValueError("Unsupported question type")
RaisesUnsupported(qt) == SchemaGet(qt) = NoSchema

\* pydantic (v1) field validation: a str field takes a string and coerces a
\* number or a bool; a bool field takes a bool (the strings of the model are
\* none of "true", "false", ...); a List[X] field takes a list whose items
\* validate as X.
FieldAccepts(declared, v) ==
    CASE declared = "str" -> v.t \in {"str", "bool"}
      [] declared = "bool" -> v.t = "bool"
      [] OTHER -> v.t = declared

\* schema(**result): every declared field is required (none has a default),
\* fields the schema does not declare are ignored
SchemaAccepts(schema, result) ==
    \A f \in DOMAIN schema :
        f \in DOMAIN result /\ FieldAccepts(schema[f], result[f])

(***************************************************************************)
(* What one chain.invoke (runner | prompt | model | parser) can produce.   *)
(***************************************************************************)

NoBody == [nothing |-> StrV("")]

\* the model call raises (network, rate limit)
TransportError == [kind |-> "transport_error", body |-> NoBody]
\* JsonOutputParser raises OutputParserException on text that is not JSON
MalformedJson == [kind |-> "malformed_json", body |-> NoBody]
\* valid JSON that is a number, a bool or null
JsonScalar == [kind |-> "json_scalar", body |-> NoBody]
\* valid JSON that is an array
JsonList == [kind |-> "json_list", body |-> NoBody]
\* no chain.invoke has returned yet
NoResponse == [kind |-> "none", body |-> NoBody]

Dict(b) == [kind |-> "dict", body |-> b]

ChoiceKeys == <<"A", "B", "C", "D">>

\* the example of MultipleChoiceQuestion
MCGood ==
    Dict([question |-> StrV("q"), choices |-> ListKV(ChoiceKeys),
          answer |-> StrV("C"), explanation |-> StrV("e")])
\* the answer names no choice
MCBadAnswer ==
    Dict([question |-> StrV("q"), choices |-> ListKV(ChoiceKeys),
          answer |-> StrV("E"), explanation |-> StrV("e")])
\* a required field is missing
MCMissing ==
    Dict([question |-> StrV("q"), choices |-> ListKV(ChoiceKeys),
          answer |-> StrV("C")])
\* the model echoed the schema's model_config
MCWithConfig ==
    Dict([question |-> StrV("q"), choices |-> ListKV(ChoiceKeys),
          answer |-> StrV("C"), explanation |-> StrV("e"),
          model_config |-> DictV])
\* the example of FillInTheBlankQuestion: five blanks
FIBGood ==
    Dict([question |-> StrV("q"), blanks |-> ListKV(<<"0", "1", "2", "3", "4">>),
          word_bank |-> ListStr, explanation |-> StrV("e")])
\* three blanks only
FIBThree ==
    Dict([question |-> StrV("q"), blanks |-> ListKV(<<"0", "1", "2">>),
          word_bank |-> ListStr, explanation |-> StrV("e")])
TFGood ==
    Dict([question |-> StrV("q"), answer |-> BoolV, explanation |-> StrV("e")])
OpenGood ==
    Dict([question |-> StrV("q"), answer |-> StrV("a"), feedback |-> ListStr])
RelateGood ==
    Dict([question |-> StrV("q"), pairs |-> ListTM, answer |-> ListTM,
          explanation |-> StrV("e")])
MathGood ==
    Dict([question |-> StrV("q"), solution |-> StrV("s"),
          correct_answer |-> StrV("4"), explanation |-> StrV("e")])

Responses ==
    {TransportError, MalformedJson, JsonScalar, JsonList,
     MCGood, MCBadAnswer, MCMissing, MCWithConfig, FIBGood, FIBThree,
     TFGood, OpenGood, RelateGood, MathGood}

\* chain.invoke raises: the model call failed or the parser rejected the text
InvokeRaises(r) == r.kind \in {"transport_error", "malformed_json"}

\* `"model_config" in response` raises TypeError on a number, a bool or None
MembershipRaises(r) == r.kind = "json_scalar"

\* if "model_config" in response: del response["model_config"]
StripModelConfig(r) ==
    IF r.kind = "dict" /\ "model_config" \in DOMAIN r.body
    THEN Dict([f \in DOMAIN r.body \ {"model_config"} |-> r.body[f]])
    ELSE r

\* variant: the schema is not consulted, any mapping passes
validate_question_AnyDict(qt, result) == result.kind = "dict"

\* validate_question: True when schema(**result) constructs, False on any
\* exception (a result that is no mapping, a missing or mistyped field, an
\* unsupported question type)
validate_question(qt, result) ==
    /\ ~RaisesUnsupported(qt)
    /\ result.kind = "dict"
    /\ SchemaAccepts(SchemaGet(qt), result.body)

\* Python's s[:n]
SlicePrefix(s, n) ==
    LET stop == IF n >= 0 THEN (IF n < Len(s) THEN n ELSE Len(s))
                ELSE (IF Len(s) + n > 0 THEN Len(s) + n ELSE 0)
    IN SubSeq(s, 1, stop)

\* variant: the attempt bound is off by one
LoopContinues_OffByOne(results, att, n) ==
    Len(results) < n /\ att <= n * AttemptsFactor

\* variant: the budget is one attempt per question short
LoopContinues_ShortBudget(results, att, n) ==
    Len(results) < n /\ att < n * (AttemptsFactor - 1)

\* variant: the loop does not stop when enough questions were collected
LoopContinues_IgnoresCount(results, att, n) ==
    att < n * AttemptsFactor

\* the loop condition of create_questions
LoopContinues(results, att, n) ==
    Len(results) < n /\ att < n * AttemptsFactor

\* variant: the limit check is off by one
ExceedsLimit_OffByOne(n) == n > MaxQuestions + 1

\* variant: a non-positive count is rejected too
ExceedsLimit_OrNonPositive(n) == n > MaxQuestions \/ n <= 0

\* if num_questions > 10
ExceedsLimit(n) == n > MaxQuestions

\* variant: the first except clause catches every exception
RouterMaps_FirstClauseCatchesAll(exc) == "ToolExecutorError"

\* variant: the question is put at the front of the list
ListAppend_Front(s, r) == <<r>> \o s

\* generated_questions.append(response)
ListAppend(s, r) == Append(s, r)

\* variant: compile builds the vector store on every call
NeedsBuild_Always(r) == TRUE

\* if self.runner is None
NeedsBuild(r) == r = "None"

\* the except clauses of submit_tool
RouterMaps(exc) ==
    IF exc = "LoaderError" THEN "ToolExecutorError" ELSE "ValueError"

(***************************************************************************)
(* One request.                                                            *)
(***************************************************************************)

QuestionTypeInputs ==
    {"fill_in_the_blank", "open_ended", "true_false", "multiple_choice",
     "relate_concepts", "math_exercises", "default", "essay"}

\* n_questions is an int with no bound in QuizzifyArgs
NumQuestionsInputs == (-1 .. MaxN) \cup {MaxQuestions + 1}

VARIABLES
    pc,                  \* where the handler is
    question_type,       \* data.question_type
    num_questions,       \* data.n_questions
    vectorstore,         \* self.vectorstore: "None", "live", "deleted"
    runner,              \* self.runner: "None", "set"
    generated_questions, \* the list of create_questions
    attempts,            \* the counter of create_questions
    response,            \* the response of the last chain.invoke
    loaderCalls,         \* calls of get_docs
    embedCalls,          \* calls of vectorstore_class.from_documents
    invocations,         \* calls of chain.invoke
    releaseCalls,        \* calls of vectorstore.delete_collection
    rejectedValidation,  \* attempts on which validate_question returned False
    raised,              \* the exception raised inside the try, "none" if none
    outcome,             \* what the caller gets
    output,              \* the value returned by create_questions
    validLog,            \* the responses of this call that fit the schema, in order
    calls,               \* create_questions calls made on the QuizBuilder
    builds,              \* from_documents calls that returned a vector store
    usesAfterRelease,    \* queries and deletes issued through a released index
    docs,                \* whose documents the store's default collection holds
    valid,               \* whose vector store object refers to the live collection
    pc2,                 \* where the other request is
    attempts2,           \* the counter of the other request
    results2             \* the list of the other request

\* the state of the QuizBuilder that outlives one create_questions call
builderVars == <<calls, builds, usesAfterRelease>>

\* the default collection of the process-wide Chroma client
storeVars == <<docs, valid>>

\* the other request
peerVars == <<pc2, attempts2, results2>>

vars ==
    <<pc, question_type, num_questions, vectorstore, runner,
      generated_questions, attempts, response, loaderCalls, embedCalls,
      invocations, releaseCalls, rejectedValidation, raised, outcome, output,
      validLog, calls, builds, usesAfterRelease, docs, valid,
      pc2, attempts2, results2>>

Init ==
    /\ pc = "get_docs"
    /\ question_type \in QuestionTypeInputs
    /\ num_questions \in NumQuestionsInputs
    /\ vectorstore = "None"
    /\ runner = "None"
    /\ generated_questions = <<>>
    /\ attempts = 0
    /\ response = NoResponse
    /\ loaderCalls = 0
    /\ embedCalls = 0
    /\ invocations = 0
    /\ releaseCalls = 0
    /\ rejectedValidation = 0
    /\ raised = "none"
    /\ outcome = "pending"
    /\ output = <<>>
    /\ validLog = <<>>
    /\ calls = 1
    /\ builds = 0
    /\ usesAfterRelease = 0
    /\ docs = {}
    /\ valid = {}
    /\ pc2 = "idle"
    /\ attempts2 = 0
    /\ results2 = <<>>

\* the vector store object of request r no longer refers to a live
\* collection: delete_collection was called on the collection it was built on
StaleHandle(r) == r \notin valid

\* schema(**response) constructs for the schema of question type qt
FitsSchema(qt, r) ==
    /\ qt \in DOMAIN schema_mapping
    /\ r.kind = "dict"
    /\ SchemaAccepts(schema_mapping[qt], r.body)

\* submit_tool is a coroutine that never awaits: the event loop runs a
\* request to its end before it starts the next one
PeerRunning == pc2 \in {"create", "loop"}
SelfRunning == pc \in {"init", "create", "loop"}

\* an exception leaves the try block of submit_tool
Raise(exc) ==
    /\ pc' = "done"
    /\ raised' = exc
    /\ outcome' = RouterMaps(exc)

\* docs = get_docs(data.file_url, data.file_type, True)
GetDocs ==
    /\ pc = "get_docs"
    /\ ~PeerRunning
    /\ loaderCalls' = loaderCalls + 1
    /\ \/ /\ pc' = "init"
          /\ UNCHANGED <<raised, outcome>>
       \/ Raise("LoaderError")
    /\ UNCHANGED <<question_type, num_questions, vectorstore, runner,
                   generated_questions, attempts, response, embedCalls,
                   invocations, releaseCalls, rejectedValidation, output,
                   validLog>>
    /\ UNCHANGED <<builderVars, storeVars, peerVars>>

\* QuizBuilder(question_type=..., topic=..., lang=..., verbose=True)
QuizBuilderInit ==
    /\ pc = "init"
    /\ IF RaisesUnsupported(question_type)
       THEN Raise("UnsupportedQuestionType")
       ELSE /\ pc' = "create"
            /\ UNCHANGED <<raised, outcome>>
    /\ UNCHANGED <<question_type, num_questions, vectorstore, runner,
                   generated_questions, attempts, response, loaderCalls,
                   embedCalls, invocations, releaseCalls, rejectedValidation,
                   output, validLog>>
    /\ UNCHANGED <<builderVars, storeVars, peerVars>>

\* create_questions up to the loop: the limit check, then compile
CreateQuestionsReject ==
    /\ pc = "create"
    /\ ExceedsLimit(num_questions)
    /\ pc' = "done"
    /\ outcome' = "message"
    /\ UNCHANGED <<question_type, num_questions, vectorstore, runner,
                   generated_questions, attempts, response, loaderCalls,
                   embedCalls, invocations, releaseCalls, rejectedValidation,
                   raised, output, validLog>>
    /\ UNCHANGED <<builderVars, storeVars, peerVars>>

\* compile: self.runner is None, so the vector store is built
Compile ==
    /\ pc = "create"
    /\ ~ExceedsLimit(num_questions)
    /\ NeedsBuild(runner)
    /\ embedCalls' = embedCalls + 1
    /\ \/ /\ vectorstore' = "live"
          /\ runner' = "set"
          /\ builds' = builds + 1
          /\ docs' = docs \cup {"self"}
          /\ valid' = valid \cup {"self"}
          /\ pc' = "loop"
          /\ UNCHANGED <<raised, outcome>>
       \/ /\ Raise("IndexBuildError")
          /\ UNCHANGED <<vectorstore, runner, builds, docs, valid>>
    /\ UNCHANGED <<question_type, num_questions, generated_questions,
                   attempts, response, loaderCalls, invocations, releaseCalls,
                   rejectedValidation, output, validLog>>
    /\ UNCHANGED <<calls, usesAfterRelease, peerVars>>

\* one iteration of the while loop
Attempt ==
    /\ pc = "loop"
    /\ LoopContinues(generated_questions, attempts, num_questions)
    /\ invocations' = invocations + 1
    /\ usesAfterRelease' =
          IF StaleHandle("self") THEN usesAfterRelease + 1 ELSE usesAfterRelease
    /\ \/ /\ StaleHandle("self")
          /\ Raise("StoreError")
          /\ UNCHANGED <<response, generated_questions, attempts,
                         rejectedValidation, validLog>>
       \/ \E r \in Responses :
            IF InvokeRaises(r)
            THEN /\ Raise(IF r.kind = "transport_error"
                          THEN "TransportError" ELSE "OutputParserException")
                 /\ response' = r
                 /\ UNCHANGED <<generated_questions, attempts,
                                rejectedValidation, validLog>>
            ELSE IF MembershipRaises(r)
            THEN /\ Raise("TypeError")
                 /\ response' = r
                 /\ UNCHANGED <<generated_questions, attempts,
                                rejectedValidation, validLog>>
            ELSE /\ response' = StripModelConfig(r)
                 /\ IF validate_question(question_type, response')
                    THEN /\ generated_questions' =
                                ListAppend(generated_questions, response')
                         /\ UNCHANGED rejectedValidation
                    ELSE /\ rejectedValidation' = rejectedValidation + 1
                         /\ UNCHANGED generated_questions
                 /\ validLog' =
                       IF FitsSchema(question_type, response')
                       THEN Append(validLog, response') ELSE validLog
                 /\ attempts' = attempts + 1
                 /\ UNCHANGED <<pc, raised, outcome>>
    /\ UNCHANGED <<question_type, num_questions, vectorstore, runner,
                   loaderCalls, embedCalls, releaseCalls, output>>
    /\ UNCHANGED <<calls, builds, storeVars, peerVars>>

\* after the loop: delete the collection and return the list
Finish ==
    /\ pc = "loop"
    /\ ~LoopContinues(generated_questions, attempts, num_questions)
    /\ releaseCalls' = releaseCalls + 1
    /\ usesAfterRelease' =
          IF StaleHandle("self") THEN usesAfterRelease + 1 ELSE usesAfterRelease
    /\ docs' = {}
    /\ valid' = {}
    /\ \/ /\ vectorstore' = "deleted"
          /\ output' = SlicePrefix(generated_questions, num_questions)
          /\ outcome' = "questions"
          /\ pc' = "done"
          /\ UNCHANGED raised
       \/ /\ valid = {}
          /\ Raise("StoreError")
          /\ UNCHANGED <<vectorstore, output>>
    /\ UNCHANGED <<question_type, num_questions, runner, generated_questions,
                   attempts, response, loaderCalls, embedCalls, invocations,
                   rejectedValidation, validLog>>
    /\ UNCHANGED <<calls, builds, peerVars>>

Next ==
    \/ GetDocs
    \/ QuizBuilderInit
    \/ CreateQuestionsReject
    \/ Compile
    \/ Attempt
    \/ Finish

Spec == Init /\ [][Next]_vars

(***************************************************************************)
(* One QuizBuilder on which create_questions is called more than once.     *)
(***************************************************************************)

\* the caller calls create_questions again on the QuizBuilder it holds: the
\* locals of create_questions start afresh, the attributes of self stay
CallAgain ==
    /\ pc = "done"
    /\ raised \notin {"LoaderError", "UnsupportedQuestionType"}
    /\ calls < MaxCalls
    /\ calls' = calls + 1
    /\ pc' = "create"
    /\ num_questions' \in NumQuestionsInputs
    /\ generated_questions' = <<>>
    /\ attempts' = 0
    /\ response' = NoResponse
    /\ invocations' = 0
    /\ rejectedValidation' = 0
    /\ raised' = "none"
    /\ outcome' = "pending"
    /\ output' = <<>>
    /\ validLog' = <<>>
    /\ UNCHANGED <<question_type, vectorstore, runner, loaderCalls,
                   embedCalls, releaseCalls, builds, usesAfterRelease>>
    /\ UNCHANGED <<storeVars, peerVars>>

\* compile: self.runner is set, the chain is put together from the runner
\* of the earlier call
CompileReuse ==
    /\ pc = "create"
    /\ ~ExceedsLimit(num_questions)
    /\ ~NeedsBuild(runner)
    /\ pc' = "loop"
    /\ UNCHANGED <<question_type, num_questions, vectorstore, runner,
                   generated_questions, attempts, response, loaderCalls,
                   embedCalls, invocations, releaseCalls, rejectedValidation,
                   raised, outcome, output, validLog>>
    /\ UNCHANGED <<builderVars, storeVars, peerVars>>

NextReuse ==
    \/ GetDocs
    \/ QuizBuilderInit
    \/ CreateQuestionsReject
    \/ Compile
    \/ CompileReuse
    \/ Attempt
    \/ Finish
    \/ CallAgain

SpecReuse == Init /\ [][NextReuse]_vars

(***************************************************************************)
(* Two requests in one process.  Each request has its own QuizBuilder, but *)
(* from_documents is called with neither a collection name nor a client:   *)
(* every Chroma object of the process then uses the collection of the      *)
(* default name in the one in-memory client, from_documents adds to that   *)
(* collection when it exists, and delete_collection deletes it by name.    *)
(* The other request asks for PeerCount multiple choice questions.         *)
(***************************************************************************)

PeerType == "multiple_choice"

PeerResponses == {TransportError, MCGood, MCMissing}

\* the other request arrives; its documents load and its QuizBuilder is made
PeerStart ==
    /\ pc2 = "idle"
    /\ ~SelfRunning
    /\ pc2' = "create"
    /\ UNCHANGED <<pc, question_type, num_questions, vectorstore, runner,
                   generated_questions, attempts, response, loaderCalls,
                   embedCalls, invocations, releaseCalls, rejectedValidation,
                   raised, outcome, output, validLog>>
    /\ UNCHANGED <<builderVars, storeVars, attempts2, results2>>

\* compile of the other request
PeerCompile ==
    /\ pc2 = "create"
    /\ \/ /\ docs' = docs \cup {"peer"}
          /\ valid' = valid \cup {"peer"}
          /\ pc2' = "loop"
       \/ /\ pc2' = "done"
          /\ UNCHANGED <<docs, valid>>
    /\ UNCHANGED <<pc, question_type, num_questions, vectorstore, runner,
                   generated_questions, attempts, response, loaderCalls,
                   embedCalls, invocations, releaseCalls, rejectedValidation,
                   raised, outcome, output, validLog>>
    /\ UNCHANGED <<builderVars, attempts2, results2>>

\* one iteration of the loop of the other request
PeerAttempt ==
    /\ pc2 = "loop"
    /\ LoopContinues(results2, attempts2, PeerCount)
    /\ \/ /\ StaleHandle("peer")
          /\ pc2' = "done"
          /\ UNCHANGED <<attempts2, results2>>
       \/ \E r \in PeerResponses :
            IF InvokeRaises(r)
            THEN /\ pc2' = "done"
                 /\ UNCHANGED <<attempts2, results2>>
            ELSE /\ results2' =
                       IF validate_question(PeerType, StripModelConfig(r))
                       THEN ListAppend(results2, StripModelConfig(r))
                       ELSE results2
                 /\ attempts2' = attempts2 + 1
                 /\ UNCHANGED pc2
    /\ UNCHANGED <<pc, question_type, num_questions, vectorstore, runner,
                   generated_questions, attempts, response, loaderCalls,
                   embedCalls, invocations, releaseCalls, rejectedValidation,
                   raised, outcome, output, validLog>>
    /\ UNCHANGED <<builderVars, storeVars>>

\* the other request deletes the collection and returns
PeerFinish ==
    /\ pc2 = "loop"
    /\ ~LoopContinues(results2, attempts2, PeerCount)
    /\ docs' = {}
    /\ valid' = {}
    /\ pc2' = "done"
    /\ UNCHANGED <<pc, question_type, num_questions, vectorstore, runner,
                   generated_questions, attempts, response, loaderCalls,
                   embedCalls, invocations, releaseCalls, rejectedValidation,
                   raised, outcome, output, validLog>>
    /\ UNCHANGED <<builderVars, attempts2, results2>>

NextTwo ==
    \/ GetDocs
    \/ QuizBuilderInit
    \/ CreateQuestionsReject
    \/ Compile
    \/ Attempt
    \/ Finish
    \/ PeerStart
    \/ PeerCompile
    \/ PeerAttempt
    \/ PeerFinish

SpecTwo == Init /\ [][NextTwo]_vars

(***************************************************************************)
(* Properties                                                              *)
(***************************************************************************)

Max0(x) == IF x > 0 THEN x ELSE 0

\* the exceptions that can only come out of create_questions
CreateQuestionsErrors ==
    {"IndexBuildError", "TransportError", "OutputParserException", "TypeError",
     "StoreError"}

\* create_questions has been entered
InCreateQuestions ==
    \/ pc = "loop"
    \/ outcome \in {"questions", "message"}
    \/ raised \in CreateQuestionsErrors

\* create_questions has built the index
IndexBuilt == vectorstore # "None"

\* the six documented question types
SupportedQuestionTypes ==
    {"fill_in_the_blank", "open_ended", "true_false", "multiple_choice",
     "relate_concepts", "math_exercises"}

\* C1 (as stated): in every execution of create_questions with requested
\* count n the number of chain invocations never exceeds 5 * n.
C1_AttemptsAtMostFiveN ==
    InCreateQuestions => invocations <= AttemptsFactor * num_questions

\* C1 (amended): the number of chain invocations never exceeds 5 * n when
\* n >= 0 and is zero when n < 0, whatever each attempt returns.
C1_AttemptsAtMostBudget ==
    InCreateQuestions => invocations <= Max0(AttemptsFactor * num_questions)

\* the cap is reached: a request for n >= 1 questions used 5 * n attempts
C1_Witness ==
    /\ pc = "done"
    /\ outcome = "questions"
    /\ num_questions >= 1
    /\ invocations = AttemptsFactor * num_questions

\* C2: once the index was built, delete_collection has been called exactly
\* once when the request has ended, on every exit path of create_questions.
C2_ReleasedOnceOnEveryExit ==
    (pc = "done" /\ IndexBuilt) => releaseCalls = 1

\* C3 (as stated): a returned list has at most n entries and every entry
\* validates against the schema of the request's question type.
C3_AtMostNValidated ==
    outcome = "questions" =>
        /\ Len(output) <= num_questions
        /\ \A i \in 1 .. Len(output) :
              /\ output[i].kind = "dict"
              /\ SchemaAccepts(schema_mapping[question_type], output[i].body)

\* C3 (amended): a returned list has at most max(n, 0) entries and every
\* entry validates against the schema of the request's question type.
C3_AtMostMaxN0Validated ==
    outcome = "questions" =>
        /\ Len(output) <= Max0(num_questions)
        /\ \A i \in 1 .. Len(output) :
              /\ output[i].kind = "dict"
              /\ SchemaAccepts(schema_mapping[question_type], output[i].body)

\* a full list of two or more questions was returned after a rejected attempt
C3_Witness ==
    /\ outcome = "questions"
    /\ num_questions >= 2
    /\ Len(output) = num_questions
    /\ rejectedValidation > 0

\* C4: for a requested count above 10 no index is built, no embedding call
\* and no attempt is made, and the loop is never entered.
C4_OverLimitRejectedBeforeCalls ==
    num_questions > MaxQuestions =>
        /\ embedCalls = 0
        /\ invocations = 0
        /\ ~IndexBuilt
        /\ pc # "loop"
        /\ outcome \in {"pending", "message", "ToolExecutorError", "ValueError"}
        /\ raised \notin CreateQuestionsErrors

\* a request for more than 10 questions went through create_questions
C4_Witness ==
    /\ num_questions > MaxQuestions
    /\ pc = "done"
    /\ outcome = "message"

\* C5: resolving the question type succeeds only for the six documented
\* identifiers: a request whose QuizBuilder was constructed has one of them.
C5_OnlySixTypesResolve ==
    (pc \in {"create", "loop"} \/ InCreateQuestions) =>
        question_type \in SupportedQuestionTypes

\* C6: a request with an unsupported question type or a requested count above
\* 10 (whose documents could be loaded) ends with the loader, the embedding
\* provider and the model each called zero times.
C6_InputErrorBeforeExternalCalls ==
    (/\ pc = "done"
     /\ raised # "LoaderError"
     /\ \/ question_type \notin SupportedQuestionTypes
        \/ num_questions > MaxQuestions) =>
        /\ loaderCalls = 0
        /\ embedCalls = 0
        /\ invocations = 0

\* C7: an attempt whose model call fails with a transport error is a failed
\* attempt: nothing is raised, attempts is incremented, the loop goes on.
C7_TransportErrorIsFailedAttempt ==
    response.kind = "transport_error" =>
        /\ raised = "none"
        /\ attempts = invocations
        /\ pc = "loop"

\* C8: an attempt whose response cannot be parsed is a failed attempt:
\* nothing is raised, attempts is incremented, the loop goes on.
C8_ParseFailureIsFailedAttempt ==
    response.kind = "malformed_json" =>
        /\ raised = "none"
        /\ attempts = invocations
        /\ pc = "loop"

\* C9: for 1 <= n <= 10, when every attempt yielded a candidate that failed
\* validation the request ends with exactly 5 * n attempts, the empty list
\* and no error; and whenever the budget is used up with fewer than n valid
\* results, the collected results are returned as a list.
C9_ExhaustedBudgetReturnsList ==
    (pc = "done" /\ num_questions \in 1 .. MaxQuestions) =>
        /\ (IndexBuilt /\ rejectedValidation = invocations) =>
              /\ attempts = AttemptsFactor * num_questions
              /\ invocations = attempts
              /\ raised = "none"
              /\ outcome = "questions"
              /\ output = <<>>
        /\ (attempts = AttemptsFactor * num_questions
              /\ Len(generated_questions) < num_questions) =>
              /\ raised = "none"
              /\ outcome = "questions"
              /\ output = generated_questions

\* three questions asked, fifteen rejected candidates, the empty list returned
C9_Witness ==
    /\ pc = "done"
    /\ num_questions = 3
    /\ rejectedValidation = 15
    /\ outcome = "questions"
    /\ output = <<>>

\* the keys of a list of {key, value} objects, as a set
KeySet(v) == {v.keys[i] : i \in 1 .. Len(v.keys)}

\* C10: a returned fill_in_the_blank question has exactly 5 blanks and a
\* returned multiple_choice question has an answer that is the key of one
\* of its choices.
C10_ReturnedQuestionsMeetCardinality ==
    outcome = "questions" =>
        \A i \in 1 .. Len(output) :
            /\ question_type = "fill_in_the_blank" =>
                  Len(output[i].body.blanks.keys) = 5
            /\ question_type = "multiple_choice" =>
                  output[i].body.answer.keys[1] \in KeySet(output[i].body.choices)

\* C11: a request ends either with a list of questions or with an error;
\* no request ends with a normal response that is not a list of questions.
C11_ListOrError ==
    pc = "done" => outcome \in {"questions", "ToolExecutorError", "ValueError"}

\* C12: the failure category reported for an index build failure differs
\* from the one reported for an unsupported question type and from the one
\* reported for a document-loading failure, and the latter two differ.
C12_DistinctFailureCategories ==
    /\ raised = "IndexBuildError" =>
          /\ outcome # RouterMaps("UnsupportedQuestionType")
          /\ outcome # RouterMaps("LoaderError")
    /\ raised = "UnsupportedQuestionType" =>
          outcome # RouterMaps("LoaderError")

\* C16: no attempt is made once n valid results are collected: from then on
\* the last response is the n-th valid candidate, the number of invocations
\* is the number of the attempt on which it arrived, and for n = 1 with a
\* valid first response the result is that response after exactly 1 attempt.
C16_NoAttemptAfterTarget ==
    (num_questions >= 1 /\ Len(generated_questions) >= num_questions) =>
        /\ Len(generated_questions) = num_questions
        /\ response = generated_questions[num_questions]
        /\ invocations = attempts
        /\ attempts = rejectedValidation + num_questions
        /\ pc = "done" =>
              /\ outcome = "questions"
              /\ output = generated_questions
        /\ (num_questions = 1 /\ rejectedValidation = 0) =>
              /\ attempts = 1
              /\ pc = "done" => output = <<response>>

\* the documented multiple choice example, valid on the first attempt of a
\* request for one question
C16_Witness ==
    /\ pc = "done"
    /\ question_type = "multiple_choice"
    /\ num_questions = 1
    /\ attempts = 1
    /\ output = <<MCGood>>

\* C17: when from_documents raises, create_questions ends with that error,
\* no attempt was made and delete_collection was not called.
C17_BuildFailureAbortsWithoutRelease ==
    raised = "IndexBuildError" =>
        /\ pc = "done"
        /\ outcome = "ValueError"
        /\ embedCalls = 1
        /\ invocations = 0
        /\ attempts = 0
        /\ releaseCalls = 0
        /\ ~IndexBuilt

\* the index build of a request for two questions failed
C17_Witness ==
    /\ raised = "IndexBuildError"
    /\ num_questions = 2
    /\ pc = "done"

\* C18: for n <= 0 a request that reaches create_questions builds the index,
\* makes no attempt and, when the build succeeded, releases the index once
\* and returns the empty list.
C18_NonPositiveCountReturnsEmpty ==
    (/\ num_questions <= 0
     /\ pc = "done"
     /\ raised \notin {"LoaderError", "UnsupportedQuestionType"}) =>
        /\ embedCalls = 1
        /\ invocations = 0
        /\ raised = "none" =>
              /\ IndexBuilt
              /\ releaseCalls = 1
              /\ outcome = "questions"
              /\ output = <<>>
        /\ raised # "none" => raised = "IndexBuildError"

\* a request for -1 questions returned the empty list after one release
C18_Witness ==
    /\ num_questions < 0
    /\ pc = "done"
    /\ outcome = "questions"
    /\ output = <<>>
    /\ releaseCalls = 1

\* C15: an iteration that completes increments attempts by exactly one and
\* appends at most one candidate, at the end of the list; the list, and the
\* list returned, is the sequence of the candidates that fit the schema, in
\* the order in which they arrived, the failed attempts skipped.
C15_OneAttemptPerIterationInOrder ==
    /\ [](/\ generated_questions = validLog
          /\ outcome = "questions" => output = validLog)
    /\ [][(invocations' = invocations + 1 /\ raised' = "none") =>
            /\ attempts' = attempts + 1
            /\ \/ generated_questions' = generated_questions
               \/ generated_questions' = Append(generated_questions, response')
         ]_vars

\* two different valid questions were returned and an attempt had failed
C15_Witness ==
    /\ outcome = "questions"
    /\ Len(output) = 2
    /\ output[1] # output[2]
    /\ rejectedValidation >= 1

C19_NoUseAfterRelease ==
    usesAfterRelease = 0

\* C14: two requests are independent: while a request is in its loop its
\* index is live and holds its own documents and no others.
C14_RequestsIndependent ==
    /\ pc = "loop" => ("self" \in valid /\ docs = {"self"})
    /\ pc2 = "loop" => ("peer" \in valid /\ docs = {"peer"})

====
